---------------------------- MODULE Spec2Model ----------------------------
(***************************************************************************)
(* A model of belvedere's agent discovery (crates/belvedere/src/           *)
(* agent_discovery.rs): the role taxonomy (AgentRole::from_name), the      *)
(* directory parser (AgentDirectory::from_path) and the discovery scanner  *)
(* (AgentDiscovery::discover_agents).                                      *)
(*                                                                         *)
(* A Rust string is a sequence of characters; a character is written as a  *)
(* short token: "a", "A", "-", "/", and for the characters outside ASCII   *)
(* whose case mappings matter, a name:                                     *)
(*    "long_s"     U+017F  LATIN SMALL LETTER LONG S                       *)
(*    "dotless_i"  U+0131  LATIN SMALL LETTER DOTLESS I                    *)
(*    "I_dot"      U+0130  LATIN CAPITAL LETTER I WITH DOT ABOVE           *)
(*    "comb_dot"   U+0307  COMBINING DOT ABOVE                             *)
(*    "sharp_s"    U+00DF  LATIN SMALL LETTER SHARP S                      *)
(*    "Kelvin"     U+212A  KELVIN SIGN                                     *)
(* An OsStr may also hold "xFF", a byte that is not valid UTF-8.           *)
(***************************************************************************)
EXTENDS Integers, Sequences, FiniteSets, TLC

VARIABLES
    name,       \* SpecRole: the string handed to AgentRole::from_name
    roles,      \* SpecRole: the role returned for name, its upper- and lower-casing
    path,       \* SpecPath: the PathBuf handed to AgentDirectory::from_path
    parsed,     \* SpecPath: whether from_path was called, and what it returned
    home,       \* SpecDiscover: dirs::home_dir(), a path or None
    gastown_root, \* SpecDiscover: AgentDiscovery.gastown_root, a path or None
    fs,         \* SpecDiscover: the filesystem, path -> node
    fsChanges,  \* SpecDiscover: how many times the filesystem was changed
    called,     \* SpecDiscover: whether discover_agents was called
    scanned,    \* SpecDiscover: the filesystem as it was during the last call
    result,     \* SpecDiscover: the Vec the last discover_agents call returned
    previous,   \* SpecRepeat: the call before the last one, what it read and returned
    scan,       \* SpecScan: each caller's discover_agents call in progress
    hist,       \* SpecScan: the filesystem at the start and after each of its
                \* changes, in order
    view,       \* SpecDashboard: the DashboardView, once constructed
    buffer,     \* SpecDashboard: the DashboardBufferView, once constructed
    probe,      \* SpecDashboard: what the data source answered in each view's
                \* last refresh_sync
    now,        \* SpecDashboard: std::time::Instant::now()
    center_pane, \* SpecPane: Town.center_pane, a CenterPane
    last_call,  \* SpecPane: the last CenterPane operation, the pane it was
                \* called on and what it returned
    convoy_progress, \* SpecProgress: a ConvoyInfo.progress, in hundredths
    bar         \* SpecProgress: whether progress_bar was called, and its outcome

vars == <<name, roles, path, parsed, home, gastown_root, fs, fsChanges, called,
          scanned, result, previous, scan, hist, view, buffer, probe, now,
          center_pane, last_call, convoy_progress, bar>>
paneVars == <<center_pane, last_call>>
barVars == <<convoy_progress, bar>>
dashVars == <<view, buffer, probe, now>>
roleVars == <<name, roles>>
pathVars == <<path, parsed>>
discVars == <<home, gastown_root, fs, fsChanges, called, scanned, result,
             previous, scan, hist>>

\* Option<T>: None is the empty sequence and Some(x) the sequence holding x.
None == << >>
Some(x) == << x >>
Unwrap(o) == o[1]
Pending == "pending"

-----------------------------------------------------------------------------
(* Bounds *)

\* How many characters of a base word the generated inputs may differ in.
MaxFlips == 2
\* How many times the filesystem changes.
MaxFsChanges == 2

-----------------------------------------------------------------------------
(* Characters and Rust's case conversions *)

LowerAlpha == <<"a","b","c","d","e","f","g","h","i","j","k","l","m",
                "n","o","p","q","r","s","t","u","v","w","x","y","z">>
UpperAlpha == <<"A","B","C","D","E","F","G","H","I","J","K","L","M",
                "N","O","P","Q","R","S","T","U","V","W","X","Y","Z">>

Range(f) == { f[i] : i \in DOMAIN f }
LowerLetters == Range(LowerAlpha)
UpperLetters == Range(UpperAlpha)
AsciiChars == LowerLetters \cup UpperLetters \cup {"1", "2", "-", " ", "/", ".", "_"}

IndexOf(c, alpha) == CHOOSE i \in DOMAIN alpha : alpha[i] = c

\* char::to_lowercase: the characters one character lowercases to.
CharToLower(c) ==
    IF c \in UpperLetters THEN << LowerAlpha[IndexOf(c, UpperAlpha)] >>
    ELSE IF c = "I_dot" THEN << "i", "comb_dot" >>
    ELSE IF c = "Kelvin" THEN << "k" >>
    ELSE << c >>

\* char::to_uppercase: the characters one character uppercases to.
CharToUpper(c) ==
    IF c \in LowerLetters THEN << UpperAlpha[IndexOf(c, LowerAlpha)] >>
    ELSE IF c = "sharp_s" THEN << "S", "S" >>
    ELSE IF c = "dotless_i" THEN << "I" >>
    ELSE IF c = "long_s" THEN << "S" >>
    ELSE << c >>

RECURSIVE to_lowercase(_)
\* str::to_lowercase
to_lowercase(s) ==
    IF s = << >> THEN << >> ELSE CharToLower(Head(s)) \o to_lowercase(Tail(s))

RECURSIVE to_uppercase(_)
\* str::to_uppercase
to_uppercase(s) ==
    IF s = << >> THEN << >> ELSE CharToUpper(Head(s)) \o to_uppercase(Tail(s))

-----------------------------------------------------------------------------
(* Role Taxonomy: AgentRole and AgentRole::from_name *)

AgentRole == {"Mayor", "Polecat", "Crew", "Witness", "Deacon", "Unknown"}

W_mayor   == <<"m","a","y","o","r">>
W_polecat == <<"p","o","l","e","c","a","t">>
W_crew    == <<"c","r","e","w">>
W_witness == <<"w","i","t","n","e","s","s">>
W_deacon  == <<"d","e","a","c","o","n">>

\* from_name without the to_lowercase call.
from_name_case_sensitive(n) ==
    IF n = W_mayor THEN "Mayor"
    ELSE IF n = W_polecat THEN "Polecat"
    ELSE IF n = W_crew THEN "Crew"
    ELSE IF n = W_witness THEN "Witness"
    ELSE IF n = W_deacon THEN "Deacon"
    ELSE "Unknown"

StartsWith(s, p) == Len(s) >= Len(p) /\ SubSeq(s, 1, Len(p)) = p

\* from_name matching a leading role name instead of the whole string.
from_name_prefix(n) ==
    LET l == to_lowercase(n) IN
    IF StartsWith(l, W_mayor) THEN "Mayor"
    ELSE IF StartsWith(l, W_polecat) THEN "Polecat"
    ELSE IF StartsWith(l, W_crew) THEN "Crew"
    ELSE IF StartsWith(l, W_witness) THEN "Witness"
    ELSE IF StartsWith(l, W_deacon) THEN "Deacon"
    ELSE "Unknown"

\* The match of from_name on the lowercased name.
match_role(l) ==
    IF l = W_mayor THEN "Mayor"
    ELSE IF l = W_polecat THEN "Polecat"
    ELSE IF l = W_crew THEN "Crew"
    ELSE IF l = W_witness THEN "Witness"
    ELSE IF l = W_deacon THEN "Deacon"
    ELSE "Unknown"

\* AgentRole::from_name
from_name(n) == match_role(to_lowercase(n))

-----------------------------------------------------------------------------
(* Directory Parser: AgentDirectory::from_path *)

RECURSIVE Find(_, _, _)
\* The index of the first c in s at or after i, or 0.
Find(s, c, i) ==
    IF i > Len(s) THEN 0 ELSE IF s[i] = c THEN i ELSE Find(s, c, i + 1)

RECURSIVE RFind(_, _, _)
\* The index of the last c in s at or before i, or 0.
RFind(s, c, i) ==
    IF i < 1 THEN 0 ELSE IF s[i] = c THEN i ELSE RFind(s, c, i - 1)

Dot == << "." >>
DotDot == << ".", "." >>

RECURSIVE file_name(_)
\* Path::file_name: the last component, read from the back of the path, when
\* it is a normal one. Trailing separators and "." components are skipped;
\* the root, a leading "." and ".." are not names.
file_name(p) ==
    IF p = << >> THEN None
    ELSE IF p[Len(p)] = "/"
         THEN IF Len(p) = 1 THEN None ELSE file_name(SubSeq(p, 1, Len(p) - 1))
    ELSE LET cut  == RFind(p, "/", Len(p))
             comp == SubSeq(p, cut + 1, Len(p))
             rest == SubSeq(p, 1, cut)
         IN  IF comp = Dot
             THEN IF rest = << >> THEN None ELSE file_name(rest)
             ELSE IF comp = DotDot THEN None
             ELSE Some(comp)

\* OsStr::to_str accepting every name (to_string_lossy).
to_str_lossy(os) == Some(os)

\* OsStr::to_str: the name as text, when it is valid UTF-8.
to_str(os) ==
    IF \E i \in DOMAIN os : os[i] = "xFF" THEN None ELSE Some(os)

\* rsplitn(2, '-'): the split at the last separator.
rsplitn2(s, sep) ==
    LET i == RFind(s, sep, Len(s)) IN
    IF i = 0 THEN << s >>
    ELSE << SubSeq(s, 1, i - 1), SubSeq(s, i + 1, Len(s)) >>

\* str::splitn(2, sep): at most two pieces, cut at the first separator.
splitn2(s, sep) ==
    LET i == Find(s, sep, 1) IN
    IF i = 0 THEN << s >>
    ELSE << SubSeq(s, 1, i - 1), SubSeq(s, i + 1, Len(s)) >>

\* parts.get(1), dropping an empty remainder.
instance_id_nonempty(parts) ==
    IF Len(parts) >= 2 /\ parts[2] # << >> THEN Some(parts[2]) ELSE None

\* parts.get(1).map(|s| s.to_string())
instance_id_of(parts) ==
    IF Len(parts) >= 2 THEN Some(parts[2]) ELSE None

AgentDirectory(p, role, instance_name, instance_id) ==
    [path |-> p, role |-> role, instance_name |-> instance_name,
     instance_id |-> instance_id]

\* from_path storing the lowercased directory name.
from_path_lowercased(p) ==
    LET fnm == file_name(p) IN
    IF fnm = None THEN None
    ELSE LET txt == to_str(Unwrap(fnm)) IN
         IF txt = None THEN None
         ELSE LET dir_name == to_lowercase(Unwrap(txt))
                  parts == splitn2(dir_name, "-")
              IN  Some(AgentDirectory(p, from_name(parts[1]), dir_name,
                                      instance_id_of(parts)))

\* from_path returning None for an unrecognised role.
from_path_known_only(p) ==
    LET fnm == file_name(p) IN
    IF fnm = None THEN None
    ELSE LET txt == to_str(Unwrap(fnm)) IN
         IF txt = None THEN None
         ELSE LET dir_name == Unwrap(txt)
                  parts == splitn2(dir_name, "-")
              IN  IF from_name(parts[1]) = "Unknown" THEN None
                  ELSE Some(AgentDirectory(p, from_name(parts[1]), dir_name,
                                           instance_id_of(parts)))

\* AgentDirectory::from_path
from_path(p) ==
    LET fnm == file_name(p) IN
    IF fnm = None THEN None
    ELSE LET txt == to_str(Unwrap(fnm)) IN
         IF txt = None THEN None
         ELSE LET dir_name == Unwrap(txt)
                  parts == splitn2(dir_name, "-")
              IN  Some(AgentDirectory(p, from_name(parts[1]), dir_name,
                                      instance_id_of(parts)))

-----------------------------------------------------------------------------
(* The filesystem: a function from the paths that exist to their nodes.     *)
(* A node is a directory or a file; children lists a directory's entry      *)
(* names in the order read_dir yields them; readable tells whether read_dir *)
(* of it succeeds, meta_ok whether its metadata can be read.                *)

Node(kind, children) ==
    [kind |-> kind, readable |-> TRUE, meta_ok |-> TRUE, children |-> children]

\* Path::join for a relative name.
join(dir, nm) ==
    IF dir = << >> \/ dir[Len(dir)] = "/" THEN dir \o nm ELSE dir \o <<"/">> \o nm

\* Path::exists: the path's metadata can be read.
exists(p) == p \in DOMAIN fs /\ fs[p].meta_ok

\* std::fs::read_dir(p) with entries.flatten(): the entries' paths in
\* enumeration order, or None when the directory cannot be listed.
read_dir(p) ==
    IF p \in DOMAIN fs /\ fs[p].kind = "dir" /\ fs[p].readable
    THEN Some([ i \in DOMAIN fs[p].children |-> join(p, fs[p].children[i]) ])
    ELSE None

\* DirEntry::metadata: is_dir of the entry, or None when it cannot be read.
metadata(e) ==
    IF e \in DOMAIN fs /\ fs[e].meta_ok THEN Some(fs[e].kind = "dir") ELSE None

-----------------------------------------------------------------------------
(* Discovery Scanner: AgentDiscovery *)

N_gazetown   == <<".","g","a","z","e","t","o","w","n">>
N_agents     == <<"a","g","e","n","t","s">>
N_dot_agents == <<".","a","g","e","n","t","s">>

\* The body of scan_agents_directory's loop for one entry, keeping records
\* of unknown role.
scan_entry_unfiltered(e) ==
    LET md == metadata(e) IN
    IF md = None \/ ~ Unwrap(md) THEN << >>
    ELSE from_path(e)

\* The loop body without the metadata.is_dir() test.
scan_entry_no_dir_check(e) ==
    LET md == metadata(e) IN
    IF md = None THEN << >>
    ELSE LET agent == from_path(e) IN
         IF agent = None THEN << >>
         ELSE IF Unwrap(agent).role # "Unknown" THEN << Unwrap(agent) >>
         ELSE << >>

\* The loop body descending one level into the entry: it also pushes the
\* records of the entry's own subdirectories.
scan_entry_descending(e) ==
    LET record(d) ==
            LET md == metadata(d) IN
            IF md = None \/ ~ Unwrap(md) THEN << >>
            ELSE LET agent == from_path(d) IN
                 IF agent = None THEN << >>
                 ELSE IF Unwrap(agent).role # "Unknown" THEN << Unwrap(agent) >>
                 ELSE << >>
        kids == IF metadata(e) = Some(TRUE) /\ read_dir(e) # None
                THEN Unwrap(read_dir(e)) ELSE << >>
        below[i \in 0..Len(kids)] ==
            IF i = 0 THEN << >> ELSE below[i - 1] \o record(kids[i])
    IN  record(e) \o below[Len(kids)]

\* The body of scan_agents_directory's loop for one entry: the records it
\* pushes.
scan_entry(e) ==
    LET md == metadata(e) IN
    IF md = None \/ ~ Unwrap(md) THEN << >>
    ELSE LET agent == from_path(e) IN
         IF agent = None THEN << >>
         ELSE IF Unwrap(agent).role # "Unknown" THEN << Unwrap(agent) >>
         ELSE << >>

RECURSIVE scan_entries_abort(_)
\* The loop leaving at the first entry whose metadata cannot be read.
scan_entries_abort(entries) ==
    IF entries = << >> THEN << >>
    ELSE IF metadata(Head(entries)) = None THEN << >>
    ELSE scan_entry(Head(entries)) \o scan_entries_abort(Tail(entries))

RECURSIVE scan_entries(_)
scan_entries(entries) ==
    IF entries = << >> THEN << >>
    ELSE scan_entry(Head(entries)) \o scan_entries(Tail(entries))

\* AgentDiscovery::scan_agents_directory
scan_agents_directory(agents_dir) ==
    LET rd == read_dir(agents_dir) IN
    IF rd = None THEN << >> ELSE scan_entries(Unwrap(rd))

\* AgentDiscovery::discover_standalone_agents
discover_standalone_agents ==
    IF home = None THEN None
    ELSE LET agents_dir == join(join(Unwrap(home), N_gazetown), N_agents) IN
         IF ~ exists(agents_dir) THEN None
         ELSE Some(scan_agents_directory(agents_dir))

\* The loop body looking for the rig's "agents" folder instead of ".agents".
scan_rig_wrong_folder(entry) ==
    LET md == metadata(entry) IN
    IF md = None \/ ~ Unwrap(md) THEN << >>
    ELSE LET agents_dir == join(entry, N_agents) IN
         IF exists(agents_dir) THEN scan_agents_directory(agents_dir) ELSE << >>

\* The body of discover_rig_agents' loop for one entry of the root.
scan_rig(entry) ==
    LET md == metadata(entry) IN
    IF md = None \/ ~ Unwrap(md) THEN << >>
    ELSE LET agents_dir == join(entry, N_dot_agents) IN
         IF exists(agents_dir) THEN scan_agents_directory(agents_dir) ELSE << >>

RECURSIVE scan_rigs(_)
scan_rigs(entries) ==
    IF entries = << >> THEN << >>
    ELSE scan_rig(Head(entries)) \o scan_rigs(Tail(entries))

\* AgentDiscovery::discover_rig_agents
discover_rig_agents ==
    IF gastown_root = None THEN None
    ELSE LET root == Unwrap(gastown_root) IN
         IF ~ exists(root) THEN None
         ELSE LET rd == read_dir(root) IN
              Some(IF rd = None THEN << >> ELSE scan_rigs(Unwrap(rd)))

RECURSIVE dedup(_)
\* The records of v, a later one dropped when an earlier one has its
\* instance_name.
dedup(v) ==
    IF v = << >> THEN << >>
    ELSE LET front == dedup(SubSeq(v, 1, Len(v) - 1))
             last  == v[Len(v)]
         IN  IF \E i \in DOMAIN front : front[i].instance_name = last.instance_name
             THEN front ELSE Append(front, last)

OrEmpty(o) == IF o = None THEN << >> ELSE Unwrap(o)

\* discover_agents merging records of the same instance_name.
discover_agents_dedup ==
    dedup(OrEmpty(discover_standalone_agents) \o OrEmpty(discover_rig_agents))

\* discover_agents collecting the rig agents first.
discover_agents_rigs_first ==
    OrEmpty(discover_rig_agents) \o OrEmpty(discover_standalone_agents)

\* discover_agents giving up (with ?) when there is no standalone folder.
discover_agents_standalone_required ==
    IF discover_standalone_agents = None THEN << >>
    ELSE Unwrap(discover_standalone_agents) \o OrEmpty(discover_rig_agents)

\* discover_agents giving up (with ?) when there is no Gas-Town root.
discover_agents_rigs_required ==
    IF discover_rig_agents = None THEN << >>
    ELSE OrEmpty(discover_standalone_agents) \o Unwrap(discover_rig_agents)

\* AgentDiscovery::discover_agents
discover_agents ==
    LET standalone == discover_standalone_agents
        rig_agents == discover_rig_agents
        agents0 == << >>
        agents1 == IF standalone # None THEN agents0 \o Unwrap(standalone) ELSE agents0
        agents2 == IF rig_agents # None THEN agents1 \o Unwrap(rig_agents) ELSE agents1
    IN  agents2

-----------------------------------------------------------------------------
(* Inputs: base words and their re-casings *)

\* The characters that differ from c by case only, or that a case conversion
\* maps to or from c.
Alts(c) ==
    (IF c \in LowerLetters THEN { UpperAlpha[IndexOf(c, LowerAlpha)] } ELSE {})
    \cup (IF c = "i" THEN {"dotless_i", "I_dot"} ELSE {})
    \cup (IF c = "s" THEN {"long_s"} ELSE {})
    \cup (IF c = "k" THEN {"Kelvin"} ELSE {})

RECURSIVE Recase(_, _)
\* The strings that differ from w in at most k characters, each replaced by
\* one of its Alts.
Recase(w, k) ==
    IF w = << >> THEN { << >> }
    ELSE { <<Head(w)>> \o t : t \in Recase(Tail(w), k) }
         \cup (IF k > 0
               THEN { <<c>> \o t : c \in Alts(Head(w)), t \in Recase(Tail(w), k - 1) }
               ELSE {})

RoleBaseNames ==
    { W_mayor, W_polecat, W_crew, W_witness, W_deacon,
      << >>,
      <<"u","n","k","n","o","w","n">>,
      <<" ","m","a","y","o","r">>,
      <<"m","a","y","o","r"," ">>,
      <<"m","a","y","o","r","s">>,
      <<"m","a","y">>,
      <<"x","c","r","e","w">>,
      <<"w","i","t","n","e","sharp_s">> }

RoleInputs == UNION { Recase(w, MaxFlips) : w \in RoleBaseNames }

-----------------------------------------------------------------------------
(* SpecRole: AgentRole::from_name applied to a name and to its casings *)

NoRoles == [raw |-> Pending, upper |-> Pending, lower |-> Pending]

NotCalled == [called |-> FALSE, ret |-> None]
Returned(v) == [called |-> TRUE, ret |-> v]

InitPathIdle == path = << >> /\ parsed = NotCalled
InitDiscIdle ==
    /\ home = None
    /\ gastown_root = None
    /\ fs = << >>
    /\ fsChanges = 0
    /\ called = FALSE
    /\ scanned = << >>
    /\ result = << >>
    /\ previous = None
    /\ scan = << >>
    /\ hist = << >>

InitDashIdle ==
    /\ view = None
    /\ buffer = None
    /\ probe = << >>
    /\ now = 0

InitPaneIdle == center_pane = << >> /\ last_call = << >>
InitBarIdle == convoy_progress = 0 /\ bar = << >>

InitRole ==
    /\ name \in RoleInputs
    /\ roles = NoRoles
    /\ InitPathIdle
    /\ InitDashIdle
    /\ InitPaneIdle
    /\ InitBarIdle
    /\ InitDiscIdle

\* AgentRole::from_name(name)
ClassifyRaw ==
    /\ roles.raw = Pending
    /\ roles' = [roles EXCEPT !.raw = from_name(name)]
    /\ UNCHANGED <<name, pathVars, discVars, dashVars, paneVars, barVars>>

\* AgentRole::from_name(name.to_uppercase())
ClassifyUpper ==
    /\ roles.upper = Pending
    /\ roles' = [roles EXCEPT !.upper = from_name(to_uppercase(name))]
    /\ UNCHANGED <<name, pathVars, discVars, dashVars, paneVars, barVars>>

\* AgentRole::from_name(name.to_lowercase())
ClassifyLower ==
    /\ roles.lower = Pending
    /\ roles' = [roles EXCEPT !.lower = from_name(to_lowercase(name))]
    /\ UNCHANGED <<name, pathVars, discVars, dashVars, paneVars, barVars>>

NextRole == ClassifyRaw \/ ClassifyUpper \/ ClassifyLower

SpecRole == InitRole /\ [][NextRole]_vars

Classified == roles.raw # Pending /\ roles.upper # Pending /\ roles.lower # Pending

IsAscii(s) == \A i \in DOMAIN s : s[i] \in AsciiChars

\* C1 as stated: for every string s, from_name(s), from_name(s.to_uppercase())
\* and from_name(s.to_lowercase()) return the same AgentRole.
C1_SameRoleAllCasings ==
    Classified => (roles.raw = roles.upper /\ roles.raw = roles.lower)

\* C1, amended: for every string s, from_name(s) and from_name(s.to_lowercase())
\* return the same AgentRole, and for every string s of ASCII characters
\* from_name(s.to_uppercase()) returns that role too.
C1_SameRoleAsciiCasings ==
    Classified =>
        /\ roles.raw = roles.lower
        /\ IsAscii(name) => roles.raw = roles.upper

\* A name in mixed ASCII case that is classified as a known role in its three
\* casings.
C1_Witness ==
    /\ Classified
    /\ IsAscii(name)
    /\ name # to_lowercase(name)
    /\ name # to_uppercase(name)
    /\ roles.raw = "Witness"

\* Whether a and b are equal up to the case of their ASCII letters.
EqIgnoreAsciiCase(a, b) ==
    /\ Len(a) = Len(b)
    /\ \A i \in DOMAIN a :
        \/ a[i] = b[i]
        \/ /\ a[i] \in UpperLetters
           /\ b[i] \in LowerLetters
           /\ IndexOf(a[i], UpperAlpha) = IndexOf(b[i], LowerAlpha)
        \/ /\ a[i] \in LowerLetters
           /\ b[i] \in UpperLetters
           /\ IndexOf(a[i], LowerAlpha) = IndexOf(b[i], UpperAlpha)

KnownRoles == AgentRole \ {"Unknown"}

\* The lexicon of the claim: each known role's name.
RoleWord(r) ==
    CASE r = "Mayor" -> <<"m","a","y","o","r">>
      [] r = "Polecat" -> <<"p","o","l","e","c","a","t">>
      [] r = "Crew" -> <<"c","r","e","w">>
      [] r = "Witness" -> <<"w","i","t","n","e","s","s">>
      [] r = "Deacon" -> <<"d","e","a","c","o","n">>

\* C2: from_name is total and exact: it returns a role for every string, role
\* R exactly when the string equals R's name ignoring (ASCII) case, and
\* Unknown for every other string (the empty string, a name with surrounding
\* whitespace, a string that contains or extends a role name).
C2_FromNameExact ==
    roles.raw # Pending =>
        /\ roles.raw \in AgentRole
        /\ \A r \in KnownRoles :
               roles.raw = r <=> EqIgnoreAsciiCase(name, RoleWord(r))
        /\ roles.raw = "Unknown" <=>
               ~ \E r \in KnownRoles : EqIgnoreAsciiCase(name, RoleWord(r))

\* A string in mixed case that extends a role name and is classified Unknown.
C2_Witness ==
    /\ roles.raw = "Unknown"
    /\ name # to_lowercase(name)
    /\ Len(name) > 5
    /\ EqIgnoreAsciiCase(SubSeq(name, 1, 5), RoleWord("Mayor"))

-----------------------------------------------------------------------------
(* SpecPath: AgentDirectory::from_path applied to a path *)

D_rig_agents == <<"/","r","i","g","/",".","a","g","e","n","t","s","/">>

PathBaseNames ==
    { W_mayor,
      <<"p","o","l","e","c","a","t","-","1">>,
      <<"c","r","e","w","-","a","l","i","c","e">>,
      <<"c","r","e","w","-","a","l","i","c","e","-","2">>,
      <<"w","i","t","n","e","s","s","-","b","a","c","k","e","n","d">>,
      <<"u","n","k","n","o","w","n","-","r","o","l","e">>,
      <<"m","a","y","o","r","-">>,
      <<"-","m","a","y","o","r">>,
      <<"c","r","e","w","-","-","x">>,
      <<"d","e","a","c","o","n","_","1">>,
      <<"n","o","t","e","s">> }

\* Names that are not valid UTF-8.
NonTextNames ==
    { <<"xFF">>,
      <<"m","a","y","o","r","xFF">>,
      <<"c","r","e","w","-","xFF">> }

\* Paths without a final name component, or whose name is reached past
\* trailing separators and "." components.
OddPaths ==
    { << >>,
      <<"/">>,
      <<".">>,
      <<".",".">>,
      <<"/","r","i","g","/",".",".">>,
      <<"/","r","i","g","/",".">>,
      <<"/",".">>,
      <<".","/",".">>,
      <<"/","r","i","g","/",".","a","g","e","n","t","s">>,
      <<"c","r","e","w","-","1","/">>,
      <<"c","r","e","w","-","1","/","/",".","/">>,
      <<"p","o","l","e","c","a","t","-","1","/",".",".">>,
      <<"x","/","D","e","a","c","o","n","-","xFF","/",".">> }

PathNames == UNION { Recase(w, MaxFlips) : w \in PathBaseNames }

PathInputs ==
    { D_rig_agents \o n : n \in PathNames \cup NonTextNames }
    \cup PathNames \cup NonTextNames \cup OddPaths

InitPath ==
    /\ path \in PathInputs
    /\ parsed = NotCalled
    /\ name = << >>
    /\ roles = NoRoles
    /\ InitDiscIdle
    /\ InitDashIdle
    /\ InitPaneIdle
    /\ InitBarIdle

\* AgentDirectory::from_path(path)
FromPath ==
    /\ ~ parsed.called
    /\ parsed' = Returned(from_path(path))
    /\ UNCHANGED <<path, roleVars, discVars, dashVars, paneVars, barVars>>

NextPath == FromPath

SpecPath == InitPath /\ [][NextPath]_vars

\* The pieces of s between the separators, first to last.
RECURSIVE Pieces(_, _)
Pieces(s, sep) ==
    IF \A i \in DOMAIN s : s[i] # sep THEN << s >>
    ELSE LET i == CHOOSE k \in DOMAIN s :
                      s[k] = sep /\ \A j \in 1..(k - 1) : s[j] # sep
         IN  << SubSeq(s, 1, i - 1) >> \o Pieces(SubSeq(s, i + 1, Len(s)), sep)

\* The path's components that name something: not empty, not ".".
NamePieces(p) == SelectSeq(Pieces(p, "/"), LAMBDA c : c # << >> /\ c # Dot)

\* The path has a final name component: its last naming piece is not "..".
HasBaseName(p) ==
    NamePieces(p) # << >> /\ NamePieces(p)[Len(NamePieces(p))] # DotDot

BaseName(p) == NamePieces(p)[Len(NamePieces(p))]

IsText(os) == \A i \in DOMAIN os : os[i] # "xFF"

Record == Unwrap(parsed.ret)
ReturnedRecord == parsed.called /\ parsed.ret # None

\* C3: from_path splits the base name at the first '-' only: the role is the
\* classification of what precedes the first '-' (the whole name when there is
\* none) and instance_id is the whole remainder after that first '-', further
\* '-' characters included.
C3_SplitAtFirstHyphen ==
    ReturnedRecord =>
        LET b == BaseName(path) IN
        IF \E i \in DOMAIN b : b[i] = "-"
        THEN \E i \in DOMAIN b :
                /\ b[i] = "-"
                /\ \A j \in 1..(i - 1) : b[j] # "-"
                /\ Record.role = from_name(SubSeq(b, 1, i - 1))
                /\ Record.instance_id = Some(SubSeq(b, i + 1, Len(b)))
        ELSE Record.role = from_name(b)

\* "crew-alice-2" in some casing: role Crew, instance_id the remainder with its
\* own '-'.
C3_Witness ==
    /\ ReturnedRecord
    /\ Record.role = "Crew"
    /\ Record.instance_id # None
    /\ Cardinality({ i \in DOMAIN Unwrap(Record.instance_id) :
                       Unwrap(Record.instance_id)[i] = "-" }) >= 1

\* C4: instance_id is present if and only if the base name contains a '-': a
\* name ending in '-' has a present, empty instance_id.
C4_InstanceIdIffHyphen ==
    ReturnedRecord =>
        /\ Record.instance_id # None <=>
               \E i \in DOMAIN BaseName(path) : BaseName(path)[i] = "-"
        /\ Len(Record.instance_id) <= 1

\* "mayor-": the instance_id is present and empty.
C4_Witness ==
    /\ ReturnedRecord
    /\ Record.instance_id = Some(<< >>)
    /\ Record.role = "Mayor"

\* C5: instance_name is the literal base name of the input path, case and
\* separators kept, and path is the input path.
C5_InstanceNameVerbatim ==
    ReturnedRecord =>
        /\ Record.instance_name = BaseName(path)
        /\ Record.path = path

\* A base name in mixed case with a '-' is kept as it is.
C5_Witness ==
    /\ ReturnedRecord
    /\ Record.instance_name # to_lowercase(Record.instance_name)
    /\ Record.instance_id # None
    /\ Record.role = "Polecat"
    /\ Record.path # Record.instance_name

\* C6: from_path never rejects an unrecognised role: a path with a textual
\* base name yields a record, and when what precedes the first '-' is no known
\* role the record has role Unknown, the base name as instance_name and the
\* remainder (if any) as instance_id.
C6_UnknownRoleIsParsed ==
    (parsed.called /\ HasBaseName(path) /\ IsText(BaseName(path))) =>
        /\ parsed.ret # None
        /\ LET b == BaseName(path)
               cut == IF \E i \in DOMAIN b : b[i] = "-"
                      THEN CHOOSE i \in DOMAIN b :
                               b[i] = "-" /\ \A j \in 1..(i - 1) : b[j] # "-"
                      ELSE Len(b) + 1
           IN  (\A r \in KnownRoles :
                    ~ EqIgnoreAsciiCase(SubSeq(b, 1, cut - 1), RoleWord(r)))
               => /\ Record.role = "Unknown"
                  /\ Record.instance_name = b
                  /\ Record.instance_id =
                        IF cut <= Len(b) THEN Some(SubSeq(b, cut + 1, Len(b)))
                        ELSE None

\* "unknown-role": a record with role Unknown and instance_id "role".
C6_Witness ==
    /\ ReturnedRecord
    /\ Record.role = "Unknown"
    /\ Record.instance_name = <<"u","n","k","n","o","w","n","-","r","o","l","e">>
    /\ Record.instance_id = Some(<<"r","o","l","e">>)

\* C7: from_path returns no record exactly when the path has no final name
\* component or that component is not text.
C7_FailsIffNoTextualName ==
    parsed.called =>
        (parsed.ret = None <=> (~ HasBaseName(path) \/ ~ IsText(BaseName(path))))

\* A path whose final name is not valid UTF-8 was refused.
C7_Witness ==
    /\ parsed.called
    /\ parsed.ret = None
    /\ HasBaseName(path)
    /\ ~ IsText(BaseName(path))

-----------------------------------------------------------------------------
(* SpecDiscover: discover_agents called on a filesystem that changes        *)
(* between the calls                                                        *)

P_home == <<"/","h">>
P_gt   == <<"/","g","t">>
N_rigA == <<"r","A">>
N_rigB == <<"r","B">>
N_polecat_1    == <<"p","o","l","e","c","a","t","-","1">>
N_unknown_role == <<"u","n","k","n","o","w","n","-","r","o","l","e">>

P_standalone == join(join(P_home, N_gazetown), N_agents)

EntryNames == { W_mayor, N_polecat_1, N_unknown_role }
N_rigC == <<"r","C">>
RigNames == { N_rigA, N_rigB, N_rigC }

\* One rig with a .agents folder holding mayor and polecat-1, one rig without
\* .agents, and standalone agents mayor and unknown-role.
BaseFs ==
    LET agentsA == join(join(P_gt, N_rigA), N_dot_agents) IN
    (P_standalone :> Node("dir", << W_mayor, N_unknown_role >>))
    @@ (join(P_standalone, W_mayor) :> Node("dir", << >>))
    @@ (join(P_standalone, N_unknown_role) :> Node("dir", << >>))
    @@ (P_gt :> Node("dir", << N_rigA, N_rigB >>))
    @@ (join(P_gt, N_rigA) :> Node("dir", << N_dot_agents >>))
    @@ (agentsA :> Node("dir", << W_mayor, N_polecat_1 >>))
    @@ (join(agentsA, W_mayor) :> Node("dir", << >>))
    @@ (join(agentsA, N_polecat_1) :> Node("dir", << >>))
    @@ (join(P_gt, N_rigB) :> Node("dir", << >>))

InitDiscover ==
    /\ home \in { None, Some(P_home) }
    /\ gastown_root \in { None, Some(P_gt) }
    /\ fs = BaseFs
    /\ fsChanges = 0
    /\ called = FALSE
    /\ scanned = << >>
    /\ result = << >>
    /\ previous = None
    /\ scan = << >>
    /\ hist = << >>
    /\ name = << >>
    /\ roles = NoRoles
    /\ InitPathIdle
    /\ InitDashIdle
    /\ InitPaneIdle
    /\ InitBarIdle

Parent(p) == SubSeq(p, 1, RFind(p, "/", Len(p)) - 1)
LastName(p) == SubSeq(p, RFind(p, "/", Len(p)) + 1, Len(p))
IsUnder(p, dir) == Len(p) > Len(dir) /\ SubSeq(p, 1, Len(dir) + 1) = dir \o <<"/">>

\* The names the environment gives to new entries of a directory.
NamesIn(dir) ==
    IF dir = P_standalone \/ LastName(dir) = N_dot_agents THEN EntryNames
    ELSE IF dir = P_gt THEN RigNames
    ELSE IF Parent(dir) = P_gt THEN { N_dot_agents }
    ELSE {}

\* A change is counted; the specification that keeps a history records the
\* filesystem the change leaves.
Changed ==
    /\ fsChanges' = fsChanges + 1
    /\ hist' = IF hist = << >> THEN hist ELSE Append(hist, fs')

\* A new entry is listed after the directory's other entries.
AddEntry(dir, nm, kind) ==
    /\ fsChanges < MaxFsChanges
    /\ dir \in DOMAIN fs
    /\ fs[dir].kind = "dir"
    /\ nm \in NamesIn(dir)
    /\ join(dir, nm) \notin DOMAIN fs
    /\ fs' = [ q \in DOMAIN fs \cup { join(dir, nm) } |->
                 IF q = join(dir, nm) THEN Node(kind, << >>)
                 ELSE IF q = dir
                      THEN [ fs[q] EXCEPT !.children = Append(@, nm) ]
                      ELSE fs[q] ]
    /\ Changed

\* The environment creates a directory.
Mkdir ==
    /\ \E dir \in DOMAIN fs :
          \E nm \in NamesIn(dir) : AddEntry(dir, nm, "dir")
    /\ UNCHANGED <<roleVars, pathVars, dashVars, paneVars, barVars, home, gastown_root, called, scanned, result,
                   previous, scan>>

\* The environment creates a regular file.
CreateFile ==
    /\ \E dir \in DOMAIN fs :
          \E nm \in NamesIn(dir) : AddEntry(dir, nm, "file")
    /\ UNCHANGED <<roleVars, pathVars, dashVars, paneVars, barVars, home, gastown_root, called, scanned, result,
                   previous, scan>>

\* The environment removes a file or a directory tree.
RemoveAll ==
    /\ fsChanges < MaxFsChanges
    /\ \E p \in DOMAIN fs :
          fs' = [ q \in { x \in DOMAIN fs : x # p /\ ~ IsUnder(x, p) } |->
                    IF q = Parent(p)
                    THEN [ fs[q] EXCEPT !.children =
                             SelectSeq(@, LAMBDA n : n # LastName(p)) ]
                    ELSE fs[q] ]
    /\ Changed
    /\ UNCHANGED <<roleVars, pathVars, dashVars, paneVars, barVars, home, gastown_root, called, scanned, result,
                   previous, scan>>

\* The environment makes a directory unlistable, or listable again (one of the
\* directories the scan lists: the others' permission is never looked at).
Chmod ==
    /\ fsChanges < MaxFsChanges
    /\ \E p \in DOMAIN fs :
          /\ fs[p].kind = "dir"
          /\ p \in { P_standalone, P_gt } \/ LastName(p) = N_dot_agents
          /\ fs' = [ fs EXCEPT ![p].readable = ~ @ ]
    /\ Changed
    /\ UNCHANGED <<roleVars, pathVars, dashVars, paneVars, barVars, home, gastown_root, called, scanned, result,
                   previous, scan>>

\* The metadata of a path becomes unreadable, or readable again.
MetaFault ==
    /\ fsChanges < MaxFsChanges
    /\ \E p \in DOMAIN fs : fs' = [ fs EXCEPT ![p].meta_ok = ~ @ ]
    /\ Changed
    /\ UNCHANGED <<roleVars, pathVars, dashVars, paneVars, barVars, home, gastown_root, called, scanned, result,
                   previous, scan>>

\* discover_agents creating the standalone folder when it is missing
\* (create_dir_all before the scan).
DiscoverAgents_creating ==
    /\ result' = discover_agents
    /\ scanned' = fs
    /\ called' = TRUE
    /\ fs' = IF home # None /\ P_standalone \notin DOMAIN fs
             THEN fs @@ (P_standalone :> Node("dir", << >>))
             ELSE fs
    /\ UNCHANGED <<roleVars, pathVars, dashVars, paneVars, barVars, home, gastown_root, fsChanges,
                   previous, scan, hist>>

\* AgentDiscovery::discover_agents
DiscoverAgents ==
    /\ result' = discover_agents
    /\ scanned' = fs
    /\ called' = TRUE
    /\ UNCHANGED <<roleVars, pathVars, dashVars, paneVars, barVars, home, gastown_root, fs, fsChanges,
                   previous, scan, hist>>

NextDiscover ==
    \/ Mkdir
    \/ CreateFile
    \/ RemoveAll
    \/ Chmod
    \/ MetaFault
    \/ DiscoverAgents

SpecDiscover == InitDiscover /\ [][NextDiscover]_vars

(* What the last call had before it: the scanned filesystem, read as sets. *)

S_exists(p) == p \in DOMAIN scanned /\ scanned[p].meta_ok
S_listable(p) ==
    p \in DOMAIN scanned /\ scanned[p].kind = "dir" /\ scanned[p].readable
S_entries(p) ==
    { join(p, scanned[p].children[i]) : i \in DOMAIN scanned[p].children }
S_is_dir(e) == e \in DOMAIN scanned /\ scanned[e].meta_ok /\ scanned[e].kind = "dir"

\* What precedes the first '-' of the entry's name is a role name, in any case.
NamedAfterRole(e) ==
    LET b == LastName(e)
        prefix == IF \E i \in DOMAIN b : b[i] = "-"
                  THEN SubSeq(b, 1, (CHOOSE i \in DOMAIN b :
                           b[i] = "-" /\ \A j \in 1..(i - 1) : b[j] # "-") - 1)
                  ELSE b
    IN  \E r \in KnownRoles : EqIgnoreAsciiCase(prefix, RoleWord(r))

\* The agent directories under an agents directory.
S_agents_in(dir) ==
    IF S_listable(dir) THEN { e \in S_entries(dir) : S_is_dir(e) } ELSE {}

\* The directories of ~/.gazetown/agents the standalone scan had before it.
StandaloneDirs ==
    IF home # None /\ S_exists(join(join(Unwrap(home), N_gazetown), N_agents))
    THEN S_agents_in(join(join(Unwrap(home), N_gazetown), N_agents))
    ELSE {}

\* The directories of the rigs' .agents folders the rig scan had before it.
RigDirs ==
    IF gastown_root # None /\ S_exists(Unwrap(gastown_root))
       /\ S_listable(Unwrap(gastown_root))
    THEN UNION { S_agents_in(join(rig, N_dot_agents)) :
                   rig \in { r \in S_entries(Unwrap(gastown_root)) :
                               S_is_dir(r) /\ S_exists(join(r, N_dot_agents)) } }
    ELSE {}

StandaloneAgents == { e \in StandaloneDirs : NamedAfterRole(e) }
RigAgents == { e \in RigDirs : NamedAfterRole(e) }

\* C8: no record returned by discover_agents has role Unknown, whether it came
\* from the standalone scan or from a rig scan.
C8_NoUnknownRole ==
    called => \A i \in DOMAIN result : result[i].role # "Unknown"

\* A call that had directories of unrecognised role before it in the
\* standalone folder and in a rig, and returned records from both.
C8_Witness ==
    /\ called
    /\ \E e \in StandaloneDirs : ~ NamedAfterRole(e)
    /\ \E e \in RigDirs : ~ NamedAfterRole(e)
    /\ \E i \in DOMAIN result : result[i].path \in StandaloneAgents
    /\ \E i \in DOMAIN result : result[i].path \in RigAgents

\* C9: the result is the concatenation of the standalone records and the rig
\* records: its length is the standalone count plus the rig count, and every
\* agent directory of either source has exactly one record, none dropped or
\* merged.
C9_LengthIsSum ==
    called =>
        /\ Len(result) = Cardinality(StandaloneAgents) + Cardinality(RigAgents)
        /\ \A e \in StandaloneAgents \cup RigAgents :
               Cardinality({ i \in DOMAIN result : result[i].path = e }) = 1
        /\ \A i \in DOMAIN result :
               /\ result[i].path \in StandaloneAgents \cup RigAgents
               /\ result[i].instance_name = LastName(result[i].path)

\* A standalone agent and a rig agent of the same instance_name are both in
\* the result.
C9_Witness ==
    /\ called
    /\ \E i, j \in DOMAIN result :
          /\ result[i].path \in StandaloneAgents
          /\ result[j].path \in RigAgents
          /\ result[i].instance_name = result[j].instance_name

\* C10: in the result every standalone record precedes every rig record.
C10_StandaloneFirst ==
    called =>
        \A i, j \in DOMAIN result :
            (result[i].path \in StandaloneAgents /\ result[j].path \in RigAgents)
                => i < j

\* A result with at least two standalone records and two rig records.
C10_Witness ==
    /\ called
    /\ Cardinality({ i \in DOMAIN result : result[i].path \in StandaloneAgents }) >= 2
    /\ Cardinality({ i \in DOMAIN result : result[i].path \in RigAgents }) >= 2

Paths(v) == { v[i].path : i \in DOMAIN v }
RigPart(v) == SelectSeq(v, LAMBDA a : a.path \notin StandaloneAgents)

\* The rigs' .agents folders that could not be listed, and the entries whose
\* metadata could not be read, in the scanned filesystem.
UnlistableAgentsDirs ==
    { d \in DOMAIN scanned :
        LastName(d) = N_dot_agents /\ scanned[d].meta_ok /\ ~ S_listable(d) }
UnreadableEntries ==
    { e \in DOMAIN scanned :
        /\ ~ scanned[e].meta_ok
        /\ Parent(e) = P_standalone \/ LastName(Parent(e)) = N_dot_agents }

\* C11: when listing a rig's .agents directory or reading the metadata of an
\* entry failed, every agent directory of every other rig and every other
\* entry still has its record.
C11_FaultsAreLocal ==
    (called /\ (UnlistableAgentsDirs # {} \/ UnreadableEntries # {})) =>
        \A e \in StandaloneAgents \cup RigAgents :
            /\ e \notin UnreadableEntries
            /\ Parent(e) \notin UnlistableAgentsDirs
            /\ \E i \in DOMAIN result : result[i].path = e

\* The metadata of the first entry of a rig's .agents folder could not be
\* read, and the entry listed after it has its record.
C11_Witness ==
    /\ called
    /\ \E d \in DOMAIN scanned :
          /\ LastName(d) = N_dot_agents
          /\ S_listable(d)
          /\ Len(scanned[d].children) >= 2
          /\ join(d, scanned[d].children[1]) \in UnreadableEntries
          /\ join(d, scanned[d].children[2]) \in Paths(result)

\* The entries of the configured root in the scanned filesystem.
S_root_entries ==
    IF gastown_root # None /\ Unwrap(gastown_root) \in DOMAIN scanned
    THEN S_entries(Unwrap(gastown_root)) ELSE {}

RootSubtree(f) == [ q \in { x \in DOMAIN f : x = P_gt \/ IsUnder(x, P_gt) } |-> f[q] ]

\* C12: the rig records come from exactly the directories under the root that
\* contain a .agents entry; a rig without .agents contributes nothing, and one
\* rig with .agents holding mayor and polecat-1 plus one rig without .agents
\* gives exactly those two records.
C12_RigsWithAgentsFolder ==
    (called /\ gastown_root # None) =>
        /\ \A i \in DOMAIN RigPart(result) :
              \E r \in S_root_entries :
                  /\ S_is_dir(r)
                  /\ join(r, N_dot_agents) \in DOMAIN scanned
                  /\ Parent(RigPart(result)[i].path) = join(r, N_dot_agents)
        /\ \A r \in S_root_entries :
              join(r, N_dot_agents) \notin DOMAIN scanned =>
                  \A i \in DOMAIN result : ~ IsUnder(result[i].path, r)
        /\ RootSubtree(scanned) = RootSubtree(BaseFs) =>
              /\ Len(RigPart(result)) = 2
              /\ RigPart(result)[1].instance_name = W_mayor
              /\ RigPart(result)[2].instance_name = N_polecat_1
              /\ \A i \in 1..2 :
                    Parent(RigPart(result)[i].path) =
                        join(join(P_gt, N_rigA), N_dot_agents)

\* The example's layout was scanned: two rig records, none from the rig
\* without .agents.
C12_Witness ==
    /\ called
    /\ gastown_root # None
    /\ RootSubtree(scanned) = RootSubtree(BaseFs)
    /\ Len(RigPart(result)) = 2

\* C13: when the home directory cannot be resolved or <home>/.gazetown/agents
\* does not exist, the standalone scan contributes no record and the rig
\* records are still returned.
C13_NoStandaloneFolder ==
    (called /\ (home = None \/ P_standalone \notin DOMAIN scanned)) =>
        /\ \A i \in DOMAIN result : ~ IsUnder(result[i].path, P_standalone)
        /\ Paths(result) = RigAgents
        /\ Len(result) = Cardinality(RigAgents)

\* The standalone folder does not exist and rig records were returned.
C13_Witness ==
    /\ called
    /\ home # None
    /\ P_standalone \notin DOMAIN scanned
    /\ Len(result) >= 2

\* C14: when no Gas-Town root is configured or the configured root does not
\* exist, the rig scan contributes no record and the standalone records are
\* still returned.
C14_NoRoot ==
    (called /\ (gastown_root = None \/ P_gt \notin DOMAIN scanned)) =>
        /\ \A i \in DOMAIN result : ~ IsUnder(result[i].path, P_gt)
        /\ Paths(result) = StandaloneAgents
        /\ Len(result) = Cardinality(StandaloneAgents)

\* The configured root does not exist and a standalone record was returned.
C14_Witness ==
    /\ called
    /\ gastown_root # None
    /\ P_gt \notin DOMAIN scanned
    /\ Len(result) >= 1

C17_ReadOnly ==
    [][ (called' /\ fsChanges' = fsChanges) =>
            (fs' = fs /\ gastown_root' = gastown_root /\ home' = home) ]_vars

\* discover_agents was called on a filesystem without a standalone folder,
\* and the filesystem is the one the call found.
C17_Witness ==
    /\ called
    /\ home # None
    /\ P_standalone \notin DOMAIN scanned
    /\ fs = scanned

-----------------------------------------------------------------------------
(* discover_agents called repeatedly: SpecRepeat                           *)

\* A call next to the one before it: the directories that one read and the
\* Vec it returned.
PreviousCall(f, v) == [ fs |-> f, ret |-> v ]

\* discover_agents pushing onto a Vec it keeps from call to call.
DiscoverAgain_accumulating ==
    /\ result' = result \o discover_agents
    /\ scanned' = fs
    /\ called' = TRUE
    /\ previous' = IF called THEN Some(PreviousCall(scanned, result)) ELSE None
    /\ UNCHANGED <<roleVars, pathVars, dashVars, paneVars, barVars, home, gastown_root, fs, fsChanges,
                   scan, hist>>

\* AgentDiscovery::discover_agents, on an AgentDiscovery that was used before
\* or not: `let mut agents = Vec::new()` starts every call.
DiscoverAgain ==
    /\ result' = discover_agents
    /\ scanned' = fs
    /\ called' = TRUE
    /\ previous' = IF called THEN Some(PreviousCall(scanned, result)) ELSE None
    /\ UNCHANGED <<roleVars, pathVars, dashVars, paneVars, barVars, home, gastown_root, fs, fsChanges,
                   scan, hist>>

NextRepeat ==
    \/ Mkdir
    \/ RemoveAll
    \/ DiscoverAgain

SpecRepeat == InitDiscover /\ [][NextRepeat]_vars

\* C18: a call keeps nothing of the calls before it: over the directories
\* the call before read it returns the same records, and otherwise it
\* returns the records of the directories as they are now, and only those.
C18_NoStateBetweenCalls ==
    (called /\ previous # None) =>
        /\ Unwrap(previous).fs = scanned => result = Unwrap(previous).ret
        /\ Paths(result) = StandaloneAgents \cup RigAgents
        /\ Len(result) = Cardinality(StandaloneAgents \cup RigAgents)

\* Two calls with a change of the filesystem between them: the second
\* lacks a record the first returned and has one the first had not.
C18_Witness ==
    /\ called
    /\ previous # None
    /\ Unwrap(previous).fs # scanned
    /\ Paths(Unwrap(previous).ret) \ Paths(result) # {}
    /\ Paths(result) \ Paths(Unwrap(previous).ret) # {}

-----------------------------------------------------------------------------
(* discover_agents one system call at a time: SpecScan, SpecTerminate      *)
(*                                                                         *)
(* A step is one read of the filesystem: Path::exists, std::fs::read_dir   *)
(* (the whole listing; entries.flatten() then walks the list read) or      *)
(* DirEntry::metadata. scan[c] holds the locals of caller c's call. The    *)
(* Vecs of discover_agents, discover_rig_agents and scan_agents_directory  *)
(* are one: `agents`; extend appends in the order of the pushes.           *)

Callers == { "c1", "c2" }

Idle == [ pc |-> "idle", agents |-> << >>, rigs |-> << >>, entries |-> << >>,
          agents_dir |-> << >>, from |-> 0, to |-> 0 ]

\* `agents` is returned (lines 117, 156, 178).
Return(s) ==
    [ s EXCEPT !.pc = "done", !.rigs = << >>, !.entries = << >>,
               !.agents_dir = << >>, !.to = Len(hist) ]

\* self.discover_rig_agents() is entered: self.gastown_root.as_ref()? (line 134).
ToRigScan(s) ==
    IF gastown_root = None THEN Return(s) ELSE [ s EXCEPT !.pc = "root_exists" ]

\* The loop over the root's entries goes to its next entry (line 144).
NextRig(s) ==
    IF s.rigs = << >> THEN Return(s)
    ELSE [ s EXCEPT !.pc = "rig_metadata", !.entries = << >>, !.agents_dir = << >> ]

\* The loop over an agents folder's entries goes to its next entry, or
\* scan_agents_directory returns to its caller (lines 164, 178).
NextEntry(s) ==
    IF s.entries # << >> THEN s
    ELSE IF s.pc = "standalone_entry" THEN ToRigScan([ s EXCEPT !.agents_dir = << >> ])
    ELSE NextRig([ s EXCEPT !.rigs = Tail(@) ])

\* discover_agents is called: Vec::new(), dirs::home_dir()? (lines 105, 122-123).
Start(c) ==
    /\ scan[c].pc = "idle"
    /\ scan' = [ scan EXCEPT ![c] =
                   LET s == [ scan[c] EXCEPT !.from = Len(hist) ] IN
                   IF home = None THEN ToRigScan(s)
                   ELSE [ s EXCEPT !.pc = "standalone_exists",
                                   !.agents_dir =
                                       join(join(Unwrap(home), N_gazetown), N_agents) ] ]
    /\ UNCHANGED <<roleVars, pathVars, dashVars, paneVars, barVars, home, gastown_root, fs, fsChanges, called,
                   scanned, result, previous, hist>>

\* agents_dir.exists() of discover_standalone_agents (line 125).
StandaloneExists(c) ==
    /\ scan[c].pc = "standalone_exists"
    /\ scan' = [ scan EXCEPT ![c] =
                   IF exists(scan[c].agents_dir)
                   THEN [ scan[c] EXCEPT !.pc = "standalone_read_dir" ]
                   ELSE ToRigScan([ scan[c] EXCEPT !.agents_dir = << >> ]) ]
    /\ UNCHANGED <<roleVars, pathVars, dashVars, paneVars, barVars, home, gastown_root, fs, fsChanges, called,
                   scanned, result, previous, hist>>

\* std::fs::read_dir(agents_dir) of scan_agents_directory (line 163).
ReadDir(c) ==
    /\ scan[c].pc \in { "standalone_read_dir", "rig_read_dir" }
    /\ scan' = [ scan EXCEPT ![c] =
                   NextEntry([ scan[c] EXCEPT
                       !.pc = IF @ = "standalone_read_dir"
                              THEN "standalone_entry" ELSE "rig_entry",
                       !.entries = OrEmpty(read_dir(scan[c].agents_dir)) ]) ]
    /\ UNCHANGED <<roleVars, pathVars, dashVars, paneVars, barVars, home, gastown_root, fs, fsChanges, called,
                   scanned, result, previous, hist>>

\* The paths an entry of an agents folder can have.
EntryPaths ==
    { join(d, n) : d \in { P_standalone } \cup
                         { join(join(P_gt, r), N_dot_agents) : r \in RigNames },
                   n \in EntryNames }

\* AgentDirectory::from_path(entry.path()) (line 167), computed once for
\* each path an entry can have.
from_path_of == [ e \in EntryPaths |-> from_path(e) ]

\* The records the loop body of scan_agents_directory pushes for the entry e
\* (lines 165-174): scan_entry(e), with from_path looked up.
entry_records(e) ==
    LET md == metadata(e) IN
    IF md = None \/ ~ Unwrap(md) THEN << >>
    ELSE IF from_path_of[e] = None THEN << >>
    ELSE IF Unwrap(from_path_of[e]).role # "Unknown" THEN << Unwrap(from_path_of[e]) >>
    ELSE << >>

\* The loop body of scan_agents_directory that tries an entry again when its
\* metadata cannot be read.
Entry_retrying(c) ==
    /\ scan[c].pc \in { "standalone_entry", "rig_entry" }
    /\ scan' = [ scan EXCEPT ![c] =
                   IF metadata(Head(scan[c].entries)) = None THEN scan[c]
                   ELSE NextEntry([ scan[c] EXCEPT
                            !.agents = @ \o entry_records(Head(scan[c].entries)),
                            !.entries = Tail(@) ]) ]
    /\ UNCHANGED <<roleVars, pathVars, dashVars, paneVars, barVars, home, gastown_root, fs, fsChanges, called,
                   scanned, result, previous, hist>>

\* The loop body of scan_agents_directory replacing the Vec by the entry's
\* records instead of pushing onto it.
Entry_overwriting(c) ==
    /\ scan[c].pc \in { "standalone_entry", "rig_entry" }
    /\ scan' = [ scan EXCEPT ![c] =
                   NextEntry([ scan[c] EXCEPT
                       !.agents = entry_records(Head(scan[c].entries)),
                       !.entries = Tail(@) ]) ]
    /\ UNCHANGED <<roleVars, pathVars, dashVars, paneVars, barVars, home, gastown_root, fs, fsChanges, called,
                   scanned, result, previous, hist>>

\* The loop body of scan_agents_directory for one entry (lines 164-175).
Entry(c) ==
    /\ scan[c].pc \in { "standalone_entry", "rig_entry" }
    /\ scan' = [ scan EXCEPT ![c] =
                   NextEntry([ scan[c] EXCEPT
                       !.agents = @ \o entry_records(Head(scan[c].entries)),
                       !.entries = Tail(@) ]) ]
    /\ UNCHANGED <<roleVars, pathVars, dashVars, paneVars, barVars, home, gastown_root, fs, fsChanges, called,
                   scanned, result, previous, hist>>

\* root.exists() of discover_rig_agents (line 136).
RootExists(c) ==
    /\ scan[c].pc = "root_exists"
    /\ scan' = [ scan EXCEPT ![c] =
                   IF exists(Unwrap(gastown_root))
                   THEN [ scan[c] EXCEPT !.pc = "root_read_dir" ]
                   ELSE Return(scan[c]) ]
    /\ UNCHANGED <<roleVars, pathVars, dashVars, paneVars, barVars, home, gastown_root, fs, fsChanges, called,
                   scanned, result, previous, hist>>

\* std::fs::read_dir(root) of discover_rig_agents (line 143).
RootReadDir(c) ==
    /\ scan[c].pc = "root_read_dir"
    /\ scan' = [ scan EXCEPT ![c] =
                   NextRig([ scan[c] EXCEPT
                       !.rigs = OrEmpty(read_dir(Unwrap(gastown_root))) ]) ]
    /\ UNCHANGED <<roleVars, pathVars, dashVars, paneVars, barVars, home, gastown_root, fs, fsChanges, called,
                   scanned, result, previous, hist>>

\* entry.metadata() and metadata.is_dir() of discover_rig_agents (lines 145-147).
RigMetadata(c) ==
    /\ scan[c].pc = "rig_metadata"
    /\ scan' = [ scan EXCEPT ![c] =
                   LET md == metadata(Head(scan[c].rigs)) IN
                   IF md = None \/ ~ Unwrap(md)
                   THEN NextRig([ scan[c] EXCEPT !.rigs = Tail(@) ])
                   ELSE [ scan[c] EXCEPT
                            !.pc = "rig_exists",
                            !.agents_dir = join(Head(scan[c].rigs), N_dot_agents) ] ]
    /\ UNCHANGED <<roleVars, pathVars, dashVars, paneVars, barVars, home, gastown_root, fs, fsChanges, called,
                   scanned, result, previous, hist>>

\* agents_dir.exists() of discover_rig_agents (line 148).
RigExists(c) ==
    /\ scan[c].pc = "rig_exists"
    /\ scan' = [ scan EXCEPT ![c] =
                   IF exists(scan[c].agents_dir)
                   THEN [ scan[c] EXCEPT !.pc = "rig_read_dir" ]
                   ELSE NextRig([ scan[c] EXCEPT !.rigs = Tail(@) ]) ]
    /\ UNCHANGED <<roleVars, pathVars, dashVars, paneVars, barVars, home, gastown_root, fs, fsChanges, called,
                   scanned, result, previous, hist>>

\* One step of caller c's call.
CallStep(c) ==
    \/ Start(c)
    \/ StandaloneExists(c)
    \/ ReadDir(c)
    \/ Entry(c)
    \/ RootExists(c)
    \/ RootReadDir(c)
    \/ RigMetadata(c)
    \/ RigExists(c)

\* No standalone folder, and one rig with two agents.
RigOnlyFs ==
    LET agentsA == join(join(P_gt, N_rigA), N_dot_agents) IN
    (P_gt :> Node("dir", << N_rigA >>))
    @@ (join(P_gt, N_rigA) :> Node("dir", << N_dot_agents >>))
    @@ (agentsA :> Node("dir", << W_mayor, N_polecat_1 >>))
    @@ (join(agentsA, W_mayor) :> Node("dir", << >>))
    @@ (join(agentsA, N_polecat_1) :> Node("dir", << >>))

\* One standalone agent, and one rig with one agent.
ScanFs ==
    LET agentsA == join(join(P_gt, N_rigA), N_dot_agents) IN
    (P_standalone :> Node("dir", << W_mayor >>))
    @@ (join(P_standalone, W_mayor) :> Node("dir", << >>))
    @@ (P_gt :> Node("dir", << N_rigA >>))
    @@ (join(P_gt, N_rigA) :> Node("dir", << N_dot_agents >>))
    @@ (agentsA :> Node("dir", << N_polecat_1 >>))
    @@ (join(agentsA, N_polecat_1) :> Node("dir", << >>))

InitScanIdle ==
    /\ fsChanges = 0
    /\ called = FALSE
    /\ scanned = << >>
    /\ result = << >>
    /\ previous = None
    /\ scan = [ c \in Callers |-> Idle ]
    /\ name = << >>
    /\ roles = NoRoles
    /\ InitPathIdle
    /\ InitDashIdle
    /\ InitPaneIdle
    /\ InitBarIdle

\* Two callers, and a filesystem whose entries come and go.
InitScan ==
    /\ home = Some(P_home)
    /\ gastown_root = Some(P_gt)
    /\ fs = RigOnlyFs
    /\ InitScanIdle
    /\ hist = << fs >>

\* The callers are alike: the one that calls first is named c1.
InTurn(c) == c = "c2" => scan["c1"].pc # "idle"

NextScan ==
    \/ Mkdir
    \/ RemoveAll
    \/ \E c \in Callers : InTurn(c) /\ Start(c)
    \/ \E c \in Callers : StandaloneExists(c)
    \/ \E c \in Callers : ReadDir(c)
    \/ \E c \in Callers : Entry(c)
    \/ \E c \in Callers : RootExists(c)
    \/ \E c \in Callers : RootReadDir(c)
    \/ \E c \in Callers : RigMetadata(c)
    \/ \E c \in Callers : RigExists(c)

SpecScan == InitScan /\ [][NextScan]_vars

\* One caller, and a filesystem whose directories and metadata become
\* unreadable and whose entries disappear.
InitTerminate ==
    /\ home \in { None, Some(P_home) }
    /\ gastown_root \in { None, Some(P_gt) }
    /\ fs = ScanFs
    /\ InitScanIdle
    /\ hist = << >>

NextTerminate ==
    \/ RemoveAll
    \/ Chmod
    \/ MetaFault
    \/ Start("c1")
    \/ StandaloneExists("c1")
    \/ ReadDir("c1")
    \/ Entry("c1")
    \/ RootExists("c1")
    \/ RootReadDir("c1")
    \/ RigMetadata("c1")
    \/ RigExists("c1")

\* The caller's thread runs: a step of its call that can be taken is taken.
SpecTerminate ==
    InitTerminate /\ [][NextTerminate]_vars /\ WF_vars(CallStep("c1"))

\* C16: a call of discover_agents returns its list, whether the home
\* directory or the root is missing and whichever directories and metadata
\* cannot be read.
C16_AlwaysReturns ==
    (scan["c1"].pc # "idle") ~> (scan["c1"].pc = "done")

\* A call returned the empty list from a filesystem that has a standalone
\* agent and a rig agent: the root could not be listed and the metadata of
\* the standalone agent could not be read.
C16_Witness ==
    /\ scan["c1"].pc = "done"
    /\ scan["c1"].agents = << >>
    /\ home # None
    /\ gastown_root # None
    /\ fs # ScanFs
    /\ DOMAIN fs = DOMAIN ScanFs
    /\ ~ fs[P_gt].readable
    /\ ~ fs[join(P_standalone, W_mayor)].meta_ok

\* The records looked up are those scan_entry computes.
EntryRecordsAreScanEntry ==
    \A e \in EntryPaths : e \in DOMAIN fs => entry_records(e) = scan_entry(e)

\* What a scan of the filesystem f, taken whole, returns: the paths of the
\* agent directories of the standalone folder in the order of its listing,
\* then those of each rig's .agents folder, rig by rig in the order of the
\* root's listing.
F_exists(f, p) == p \in DOMAIN f /\ f[p].meta_ok
F_is_dir(f, e) == e \in DOMAIN f /\ f[e].meta_ok /\ f[e].kind = "dir"
F_listing(f, d) ==
    IF d \in DOMAIN f /\ f[d].kind = "dir" /\ f[d].readable
    THEN [ i \in DOMAIN f[d].children |-> join(d, f[d].children[i]) ]
    ELSE << >>
F_agents(f, d) ==
    SelectSeq(F_listing(f, d), LAMBDA e : F_is_dir(f, e) /\ NamedAfterRole(e))
F_rigs(f, r) ==
    SelectSeq(F_listing(f, r),
              LAMBDA e : F_is_dir(f, e) /\ F_exists(f, join(e, N_dot_agents)))

RECURSIVE F_rig_agents(_, _)
F_rig_agents(f, rigs) ==
    IF rigs = << >> THEN << >>
    ELSE F_agents(f, join(Head(rigs), N_dot_agents)) \o F_rig_agents(f, Tail(rigs))

ScanOf(f) ==
    (IF home # None /\ F_exists(f, P_standalone)
     THEN F_agents(f, P_standalone) ELSE << >>)
    \o (IF gastown_root # None /\ F_exists(f, Unwrap(gastown_root))
        THEN F_rig_agents(f, F_rigs(f, Unwrap(gastown_root))) ELSE << >>)

PathsOf(v) == [ i \in DOMAIN v |-> v[i].path ]

\* The one-call discover_agents of SpecDiscover returns the scan of the
\* filesystem it was called on.
DiscoverAgentsIsScanOf == called => PathsOf(result) = ScanOf(scanned)

\* The instants of caller c's call: the filesystem at its start and after
\* each change until its return.
Instants(c) == scan[c].from .. scan[c].to

\* C19 as stated: the list a call returns is the scan of the filesystem as it
\* stood at one instant between the call's start and its return.
C19_ScanOfOneInstant ==
    \A c \in Callers :
        scan[c].pc = "done" =>
            \E i \in Instants(c) : PathsOf(scan[c].agents) = ScanOf(hist[i])

\* C19, amended: when the filesystem does not change between a call's start
\* and its return, the list the call returns is the scan of that filesystem,
\* whatever the steps of the other caller in between.
C19_ScanWhenUnchanged ==
    \A c \in Callers :
        (scan[c].pc = "done" /\ scan[c].from = scan[c].to) =>
            PathsOf(scan[c].agents) = ScanOf(hist[scan[c].from])

\* Both callers returned, their calls overlapped changes of the filesystem
\* differently: one saw no change and returned records, the other started
\* before a change.
C19_Witness ==
    \E c, d \in Callers :
        /\ scan[c].pc = "done"
        /\ scan[c].from = scan[c].to
        /\ scan[c].from > 1
        /\ scan[c].agents # << >>
        /\ scan[d].pc = "done"
        /\ scan[d].from < scan[c].from

-----------------------------------------------------------------------------
(* The dashboard: DashboardView (crates/gastown/src/dashboard_buffer.rs)   *)
(* and DashboardBufferView (crates/gastown/src/dashboard_buffer_tests.rs)  *)
(*                                                                         *)
(* A text is the sequence of its lines and a line the sequence of its      *)
(* pieces; numbers are written out. A progress is in hundredths. A panic   *)
(* is the result None of the function that panics.                         *)

\* How far the clock runs.
MaxTime == 2

ConnectionStatus == { "Connected", "Disconnected", "Unknown" }

\* DashboardError
NotAvailable == [ kind |-> "NotAvailable", msg |-> "" ]
FetchFailed(msg) == [ kind |-> "FetchFailed", msg |-> msg ]
ParseError(msg) == [ kind |-> "ParseError", msg |-> msg ]
DashboardError ==
    { NotAvailable, FetchFailed("No data configured"), ParseError("unexpected end") }

\* Result<DashboardData, DashboardError>
Ok(data) == [ ok |-> TRUE, val |-> data ]
Err(err) == [ ok |-> FALSE, val |-> err ]

EmptyData == [ agents |-> << >>, convoys |-> << >>, rigs |-> << >> ]
SampleData ==
    [ agents |-> << [ name |-> "mayor", status |-> "Active",
                      token_usage |-> None, context_fill |-> None ],
                    [ name |-> "polecat-1", status |-> "Idle",
                      token_usage |-> Some([ input_tokens |-> 10, output_tokens |-> 20 ]),
                      context_fill |-> Some(50) ],
                    [ name |-> "witness", status |-> "Error",
                      token_usage |-> None, context_fill |-> None ] >>,
      convoys |-> << [ id |-> "convoy-1", progress |-> 50 ] >>,
      rigs |-> << [ name |-> "rig-a", path |-> "/gt/rig-a" ] >> ]
OverData ==
    [ agents |-> << >>,
      convoys |-> << [ id |-> "convoy-2", progress |-> 150 ] >>,
      rigs |-> << >> ]
DashboardData == { EmptyData, SampleData, OverData }

\* What fetch() can return.
FetchResults == { Ok(d) : d \in DashboardData } \cup { Err(e) : e \in DashboardError }

Repeat(s, n) == [ i \in 1..n |-> s ]

\* DashboardFormatter::progress_bar: `10 - filled` overflows usize when more
\* than ten cells are filled, and the function panics.
progress_bar(progress) ==
    LET filled == IF progress < 0 THEN 0 ELSE (progress * 10) \div 100 IN
    IF filled > 10 THEN None
    ELSE Some(<< "[" >> \o Repeat("full_block", filled)
                     \o Repeat("light_shade", 10 - filled) \o << "]" >>)

status_icon(status) ==
    IF status = "Active" THEN "black_circle"
    ELSE IF status = "Idle" THEN "white_circle"
    ELSE "ballot_x"

\* The agent's line of DashboardFormatter::format.
agent_line(agent) ==
    << "  ", status_icon(agent.status), " ", agent.name >>
    \o (IF agent.context_fill # None
        THEN << " [ctx: ", ToString(Unwrap(agent.context_fill)), "%]" >> ELSE << >>)
    \o (IF agent.token_usage # None
        THEN << " [tokens: ", ToString(Unwrap(agent.token_usage).input_tokens),
                "down ", ToString(Unwrap(agent.token_usage).output_tokens), "up]" >>
        ELSE << >>)

\* The agent's line of the test file's DashboardFormatter::format.
buffer_agent_line(agent) == << "  ", status_icon(agent.status), " ", agent.name >>

\* The convoy's line, when progress_bar returns.
convoy_line(convoy) ==
    << "  ", convoy.id, " " >> \o Unwrap(progress_bar(convoy.progress))
    \o << " (", ToString(convoy.progress), "%)" >>

rig_line(rig) == << "  ", rig.name, " -> ", rig.path >>

\* DashboardFormatter::format with the agents' lines given.
format_with(agent_lines, data) ==
    IF \E i \in DOMAIN data.convoys : progress_bar(data.convoys[i].progress) = None
    THEN None
    ELSE Some(
        << << "=== Gastown Dashboard ===" >>, << >>, << "> Agents" >> >>
        \o (IF data.agents = << >> THEN << << "  No agents running" >> >>
            ELSE agent_lines)
        \o << << >>, << "> Convoys" >> >>
        \o (IF data.convoys = << >> THEN << << "  No active convoys" >> >>
            ELSE [ i \in DOMAIN data.convoys |-> convoy_line(data.convoys[i]) ])
        \o << << >>, << "> Rigs" >> >>
        \o (IF data.rigs = << >> THEN << << "  No rigs configured" >> >>
            ELSE [ i \in DOMAIN data.rigs |-> rig_line(data.rigs[i]) ]))

\* DashboardFormatter::format
format(data) ==
    format_with([ i \in DOMAIN data.agents |-> agent_line(data.agents[i]) ], data)

\* DashboardFormatter::format of the test file
buffer_format(data) ==
    format_with([ i \in DOMAIN data.agents |-> buffer_agent_line(data.agents[i]) ], data)

\* DashboardFormatter::format_error
format_error(error) ==
    IF error.kind = "NotAvailable"
    THEN << << "Dashboard unavailable" >>, << >>, << "Run 'gt up' to start Gastown" >> >>
    ELSE IF error.kind = "FetchFailed"
    THEN << << "Failed to load dashboard" >>, << >>, << error.msg >> >>
    ELSE << << "Failed to parse dashboard data" >>, << >>, << error.msg >> >>

Loading == << << "Loading..." >> >>

\* The fields DashboardView::new gives before its refresh_sync.
NewDashboardView ==
    [ data |-> None, error |-> None, last_update |-> None,
      connection_status |-> "Unknown" ]

\* The fields DashboardBufferView::new gives before its refresh_sync.
NewDashboardBufferView ==
    [ content |-> Loading, last_update |-> None, connection_status |-> "Unknown",
      panicked |-> FALSE ]

\* DashboardView::content
content(v) ==
    IF v.data # None THEN format(Unwrap(v.data))
    ELSE IF v.error # None THEN Some(format_error(Unwrap(v.error)))
    ELSE Some(Loading)

\* refresh_sync taking the connection status from the outcome of fetch().
refresh_sync_status_of_fetch(v, available, fetched) ==
    IF fetched.ok
    THEN [ v EXCEPT !.connection_status = "Connected",
                    !.data = Some(fetched.val), !.error = None,
                    !.last_update = Some(now) ]
    ELSE [ v EXCEPT !.connection_status = "Disconnected",
                    !.data = None, !.error = Some(fetched.val) ]

\* refresh_sync writing last_update only while it is absent.
refresh_sync_first_time_only(v, available, fetched) ==
    LET status == IF available THEN "Connected" ELSE "Disconnected" IN
    IF fetched.ok
    THEN [ v EXCEPT !.connection_status = status,
                    !.data = Some(fetched.val), !.error = None,
                    !.last_update = IF @ = None THEN Some(now) ELSE @ ]
    ELSE [ v EXCEPT !.connection_status = status,
                    !.data = None, !.error = Some(fetched.val) ]

\* refresh_sync writing last_update whatever fetch() returned.
refresh_sync_stamping_errors(v, available, fetched) ==
    LET status == IF available THEN "Connected" ELSE "Disconnected" IN
    IF fetched.ok
    THEN [ v EXCEPT !.connection_status = status,
                    !.data = Some(fetched.val), !.error = None,
                    !.last_update = Some(now) ]
    ELSE [ v EXCEPT !.connection_status = status,
                    !.data = None, !.error = Some(fetched.val),
                    !.last_update = Some(now) ]

\* refresh_sync keeping the data of an earlier fetch when fetch() fails.
refresh_sync_keeping_data(v, available, fetched) ==
    LET status == IF available THEN "Connected" ELSE "Disconnected" IN
    IF fetched.ok
    THEN [ v EXCEPT !.connection_status = status,
                    !.data = Some(fetched.val), !.error = None,
                    !.last_update = Some(now) ]
    ELSE [ v EXCEPT !.connection_status = status,
                    !.error = Some(fetched.val) ]

\* DashboardView::refresh_sync, the data source answering `available` to
\* is_available() and `fetched` to fetch().
refresh_sync(v, available, fetched) ==
    LET status == IF available THEN "Connected" ELSE "Disconnected" IN
    IF fetched.ok
    THEN [ v EXCEPT !.connection_status = status,
                    !.data = Some(fetched.val), !.error = None,
                    !.last_update = Some(now) ]
    ELSE [ v EXCEPT !.connection_status = status,
                    !.data = None, !.error = Some(fetched.val) ]

\* DashboardBufferView::refresh_sync. When format panics the status is
\* already written and the rest is not.
buffer_refresh_sync(b, available, fetched) ==
    LET status == IF available THEN "Connected" ELSE "Disconnected" IN
    IF fetched.ok
    THEN IF buffer_format(fetched.val) = None
         THEN [ b EXCEPT !.connection_status = status, !.panicked = TRUE ]
         ELSE [ b EXCEPT !.connection_status = status,
                         !.content = Unwrap(buffer_format(fetched.val)),
                         !.last_update = Some(now) ]
    ELSE [ b EXCEPT !.connection_status = status,
                    !.content = format_error(fetched.val) ]

\* What the data source answered in a refresh_sync, when, and the last_update
\* the view had before it.
Answers(available, fetched, before) ==
    Some([ available |-> available, fetched |-> fetched, at |-> now,
           before |-> before ])

NoAnswers == [ view |-> None, buffer |-> None ]

InitDashboard ==
    /\ view = None
    /\ buffer = None
    /\ probe = NoAnswers
    /\ now = 0
    /\ name = << >>
    /\ roles = NoRoles
    /\ InitPathIdle
    /\ InitDiscIdle
    /\ InitPaneIdle
    /\ InitBarIdle

\* DashboardView::new
NewView ==
    /\ view = None
    /\ \E available \in BOOLEAN, fetched \in FetchResults :
          /\ view' = Some(refresh_sync(NewDashboardView, available, fetched))
          /\ probe' = [ probe EXCEPT !.view = Answers(available, fetched, None) ]
    /\ UNCHANGED <<roleVars, pathVars, discVars, paneVars, barVars, buffer, now>>

\* DashboardView::refresh
RefreshView ==
    /\ view # None
    /\ \E available \in BOOLEAN, fetched \in FetchResults :
          /\ view' = Some(refresh_sync(Unwrap(view), available, fetched))
          /\ probe' = [ probe EXCEPT !.view =
                           Answers(available, fetched, Unwrap(view).last_update) ]
    /\ UNCHANGED <<roleVars, pathVars, discVars, paneVars, barVars, buffer, now>>

\* DashboardBufferView::new; a panic of its refresh_sync leaves no view.
NewBuffer ==
    /\ buffer = None
    /\ \E available \in BOOLEAN, fetched \in FetchResults :
          LET b == buffer_refresh_sync(NewDashboardBufferView, available, fetched) IN
          /\ buffer' = IF b.panicked THEN None ELSE Some(b)
          /\ probe' = IF b.panicked THEN probe
                      ELSE [ probe EXCEPT !.buffer = Answers(available, fetched, None) ]
    /\ UNCHANGED <<roleVars, pathVars, discVars, paneVars, barVars, view, now>>

\* DashboardBufferView::refresh
RefreshBuffer ==
    /\ buffer # None
    /\ ~ Unwrap(buffer).panicked
    /\ \E available \in BOOLEAN, fetched \in FetchResults :
          /\ buffer' = Some(buffer_refresh_sync(Unwrap(buffer), available, fetched))
          /\ probe' = [ probe EXCEPT !.buffer =
                           Answers(available, fetched, Unwrap(buffer).last_update) ]
    /\ UNCHANGED <<roleVars, pathVars, discVars, paneVars, barVars, view, now>>

\* Time passes.
Tick ==
    /\ now < MaxTime
    /\ now' = now + 1
    /\ UNCHANGED <<roleVars, pathVars, discVars, paneVars, barVars, view, buffer, probe>>

NextDashboard ==
    \/ NewView
    \/ RefreshView
    \/ NewBuffer
    \/ RefreshBuffer
    \/ Tick

SpecDashboard == InitDashboard /\ [][NextDashboard]_vars

StatusFor(available) == IF available THEN "Connected" ELSE "Disconnected"

\* C20: once a DashboardView or a DashboardBufferView is constructed, its
\* connection_status is Connected when is_available() answered true in its
\* last refresh_sync and Disconnected when it answered false; it is never
\* Unknown.
C20_StatusFollowsIsAvailable ==
    /\ view # None =>
          /\ Unwrap(view).connection_status # "Unknown"
          /\ Unwrap(view).connection_status =
                 StatusFor(Unwrap(probe.view).available)
    /\ buffer # None =>
          /\ Unwrap(buffer).connection_status # "Unknown"
          /\ Unwrap(buffer).connection_status =
                 StatusFor(Unwrap(probe.buffer).available)

\* The DashboardView is Connected although its last fetch failed, and the
\* DashboardBufferView is Disconnected although its last fetch succeeded.
C20_Witness ==
    /\ view # None
    /\ Unwrap(view).connection_status = "Connected"
    /\ Unwrap(view).error # None
    /\ buffer # None
    /\ Unwrap(buffer).connection_status = "Disconnected"
    /\ Unwrap(probe.buffer).fetched.ok
    /\ now > 0

\* What each view answered to its last fetch().
ViewFetched == Unwrap(probe.view).fetched
BufferFetched == Unwrap(probe.buffer).fetched

\* C21: the dashboard's content reflects the outcome of the most recent
\* fetch: after a refresh whose fetch failed it is the error message for that
\* error and holds nothing of an earlier successful fetch, and after a refresh
\* whose fetch succeeded it is the formatted data.
C21_ContentOfLastFetch ==
    /\ view # None =>
          /\ content(Unwrap(view)) # None
          /\ ViewFetched.ok => content(Unwrap(view)) = format(ViewFetched.val)
          /\ ~ ViewFetched.ok =>
                 content(Unwrap(view)) = Some(format_error(ViewFetched.val))
    /\ buffer # None =>
          /\ BufferFetched.ok =>
                 Some(Unwrap(buffer).content) = buffer_format(BufferFetched.val)
          /\ ~ BufferFetched.ok =>
                 Unwrap(buffer).content = format_error(BufferFetched.val)

\* Option<Instant> a is not later than Option<Instant> b; an absent time is
\* before every time.
NotLater(a, b) == a = None \/ (b # None /\ Unwrap(a) <= Unwrap(b))

\* last_update after a refresh_sync that answered `a` and returned.
LastUpdateFollows(a, last_update) ==
    /\ a.fetched.ok => last_update = Some(a.at)
    /\ NotLater(a.before, last_update)
    /\ (a.fetched.ok /\ a.before # None /\ a.at > Unwrap(a.before)) =>
           Unwrap(last_update) > Unwrap(a.before)

C28_DataOrError ==
    view # None =>
        /\ (Unwrap(view).data # None) # (Unwrap(view).error # None)
        /\ content(Unwrap(view)) # Some(Loading)

\* The view held data at time 0 and holds an error, and no data, after a
\* later refresh.
C28_Witness ==
    /\ view # None
    /\ Unwrap(view).error # None
    /\ Unwrap(view).data = None
    /\ Unwrap(probe.view).before = Some(0)
    /\ Unwrap(probe.view).at > 0

\* C29: a refresh whose fetch fails leaves last_update as it was, the time
\* of the last successful fetch or absent when none succeeded, while the
\* content and the connection status are replaced.
C29_FailureKeepsLastUpdate ==
    /\ (view # None /\ ~ ViewFetched.ok) =>
          /\ Unwrap(view).last_update = Unwrap(probe.view).before
          /\ content(Unwrap(view)) = Some(format_error(ViewFetched.val))
          /\ Unwrap(view).connection_status = StatusFor(Unwrap(probe.view).available)
    /\ (buffer # None /\ ~ BufferFetched.ok) =>
          /\ Unwrap(buffer).last_update = Unwrap(probe.buffer).before
          /\ Unwrap(buffer).content = format_error(BufferFetched.val)
          /\ Unwrap(buffer).connection_status =
                 StatusFor(Unwrap(probe.buffer).available)

\* The view's fetch succeeded at time 0 and failed at a later time; the
\* buffer view's fetch has failed and never succeeded.
C29_Witness ==
    /\ view # None
    /\ ~ ViewFetched.ok
    /\ Unwrap(probe.view).at = MaxTime
    /\ Unwrap(view).last_update = Some(0)
    /\ buffer # None
    /\ ~ BufferFetched.ok
    /\ Unwrap(probe.buffer).at > 0
    /\ Unwrap(buffer).last_update = None

(***************************************************************************)
(* DashboardFormatter::progress_bar as a function of its argument.  A      *)
(* ConvoyInfo.progress is an f32 that nothing validates; it is modelled in *)
(* hundredths, so 150 is 1.5.                                              *)
(***************************************************************************)
MaxProgress == 150
ProgressValues == (0 - MaxProgress)..MaxProgress

NotDrawn == << >>

InitProgress ==
    /\ convoy_progress \in ProgressValues
    /\ bar = NotDrawn
    /\ name = << >>
    /\ roles = NoRoles
    /\ InitPathIdle
    /\ InitDiscIdle
    /\ InitDashIdle
    /\ InitPaneIdle

\* DashboardFormatter::progress_bar(convoy.progress)
ProgressBar ==
    /\ bar = NotDrawn
    /\ bar' = << progress_bar(convoy_progress) >>
    /\ UNCHANGED <<roleVars, pathVars, discVars, dashVars, paneVars, convoy_progress>>

NextProgress == ProgressBar
SpecProgress == InitProgress /\ [][NextProgress]_vars

Cells(text, cell) == Cardinality({ i \in 1..Len(text) : text[i] = cell })

\* C30: progress_bar returns a bar of exactly ten cells for every progress it
\* is given: the filled cells are the integer part of progress * 10, the empty
\* cells are ten minus that, and the subtraction never goes below zero.
C30_TenCells ==
    bar # NotDrawn =>
        /\ bar[1] # None
        /\ Cells(Unwrap(bar[1]), "full_block") + Cells(Unwrap(bar[1]), "light_shade") = 10
        /\ convoy_progress >= 0 =>
               Cells(Unwrap(bar[1]), "full_block") = (convoy_progress * 10) \div 100

-----------------------------------------------------------------------------
(* SpecNested: discover_agents called on a filesystem whose agent           *)
(* directories and rigs hold directories of their own                       *)

\* The names of the nested directories: role names, and an agents folder.
NestedNames == { W_crew, N_polecat_1, N_dot_agents }

\* A standalone agent holding a directory, a rig holding a directory next to
\* its .agents folder, and an in-rig agent holding a .agents folder that
\* holds a directory; all of them named after roles.
NestedFs ==
    LET rigA == join(P_gt, N_rigA)
        agentsA == join(rigA, N_dot_agents)
        inner == join(join(agentsA, W_mayor), N_dot_agents) IN
    (P_standalone :> Node("dir", << W_mayor >>))
    @@ (join(P_standalone, W_mayor) :> Node("dir", << W_crew >>))
    @@ (join(join(P_standalone, W_mayor), W_crew) :> Node("dir", << >>))
    @@ (P_gt :> Node("dir", << N_rigA >>))
    @@ (rigA :> Node("dir", << N_dot_agents, W_witness >>))
    @@ (join(rigA, W_witness) :> Node("dir", << >>))
    @@ (agentsA :> Node("dir", << W_mayor >>))
    @@ (join(agentsA, W_mayor) :> Node("dir", << N_dot_agents >>))
    @@ (inner :> Node("dir", << W_deacon >>))
    @@ (join(inner, W_deacon) :> Node("dir", << >>))

InitNested ==
    /\ home = Some(P_home)
    /\ gastown_root = Some(P_gt)
    /\ fs = NestedFs
    /\ fsChanges = 0
    /\ called = FALSE
    /\ scanned = << >>
    /\ result = << >>
    /\ previous = None
    /\ scan = << >>
    /\ hist = << >>
    /\ name = << >>
    /\ roles = NoRoles
    /\ InitPathIdle
    /\ InitDashIdle
    /\ InitPaneIdle
    /\ InitBarIdle

\* The environment creates a directory inside any directory.
MkdirNested ==
    /\ fsChanges < MaxFsChanges
    /\ \E dir \in DOMAIN fs, nm \in NestedNames :
          /\ fs[dir].kind = "dir"
          /\ join(dir, nm) \notin DOMAIN fs
          /\ fs' = [ q \in DOMAIN fs \cup { join(dir, nm) } |->
                       IF q = join(dir, nm) THEN Node("dir", << >>)
                       ELSE IF q = dir
                            THEN [ fs[q] EXCEPT !.children = Append(@, nm) ]
                            ELSE fs[q] ]
    /\ Changed
    /\ UNCHANGED <<roleVars, pathVars, dashVars, paneVars, barVars, home,
                   gastown_root, called, scanned, result, previous, scan>>

NextNested ==
    \/ MkdirNested
    \/ RemoveAll
    \/ DiscoverAgents

SpecNested == InitNested /\ [][NextNested]_vars

\* The directories whose entries the scan may return: the standalone agents
\* folder and the .agents folder of each entry of the root.
AgentsFolders ==
    (IF home = None THEN {}
     ELSE { join(join(Unwrap(home), N_gazetown), N_agents) })
    \cup (IF gastown_root = None THEN {}
          ELSE { d \in DOMAIN scanned :
                   /\ LastName(d) = N_dot_agents
                   /\ Parent(Parent(d)) = Unwrap(gastown_root) })

\* The directories named after a role that lie deeper: inside an agent
\* directory, or inside a rig and outside its .agents folder.
NestedRoleDirs ==
    { d \in DOMAIN scanned :
        /\ scanned[d].kind = "dir"
        /\ NamedAfterRole(d)
        /\ Parent(d) \notin AgentsFolders }

\* C23: the scan never descends more than one level below an agents
\* directory: a directory nested inside an agent directory, or inside a rig
\* and outside its .agents folder, produces no record, so every returned
\* record's path is an immediate child of <home>/.gazetown/agents or of some
\* <root>/<rig>/.agents.
C23_OneLevelOnly ==
    called =>
        /\ \A i \in DOMAIN result : Parent(result[i].path) \in AgentsFolders
        /\ \A d \in NestedRoleDirs : \A i \in DOMAIN result : result[i].path # d

\* The call returned the standalone and the in-rig mayor and had before it
\* role-named directories inside an agent directory, inside a rig outside
\* .agents, and inside a .agents folder of an agent directory.
C23_Witness ==
    /\ called
    /\ Len(result) >= 2
    /\ \E d \in NestedRoleDirs : Parent(Parent(d)) \in AgentsFolders
    /\ \E d \in NestedRoleDirs : Parent(Parent(d)) = Unwrap(gastown_root)
    /\ \E d \in NestedRoleDirs :
          /\ LastName(Parent(d)) = N_dot_agents
          /\ Parent(Parent(Parent(d))) \in AgentsFolders
    /\ fsChanges > 0

-----------------------------------------------------------------------------
(* Center Pane: Town's CenterPane, the tabbed items and the active one      *)

\* The AnyViews that can be opened; the same view may be opened twice.
Views == { "v1", "v2", "v3" }
MaxItems == 3
\* The indices handed to close_item and set_active, in and out of range.
Indices == 0..(MaxItems + 1)

\* CenterPane::new
NewCenterPane == [ items |-> << >>, active_index |-> 0 ]

\* CenterPane::is_empty
is_empty(pane) == pane.items = << >>

\* CenterPane::active_item: items.get(active_index); the Vec's index i is
\* the sequence's i + 1.
active_item(pane) ==
    IF pane.active_index < Len(pane.items)
    THEN Some(pane.items[pane.active_index + 1])
    ELSE None

\* usize::saturating_sub
saturating_sub(a, b) == IF a < b THEN 0 ELSE a - b

\* Vec::remove(index) for index < len: the Vec without that item.
Vec_remove(items, index) ==
    SubSeq(items, 1, index) \o SubSeq(items, index + 2, Len(items))

\* add_item leaving the active index where it was.
add_item_keeping_active(pane, item) ==
    [ pane EXCEPT !.items = Append(@, item) ]

\* CenterPane::add_item
add_item(pane, item) ==
    LET items == Append(pane.items, item) IN
    [ items |-> items, active_index |-> saturating_sub(Len(items), 1) ]

\* close_item without the correction of the active index.
close_item_keeping_index(pane, index) ==
    IF index < Len(pane.items)
    THEN [ pane |-> [ pane EXCEPT !.items = Vec_remove(@, index) ],
           ret |-> Some(pane.items[index + 1]) ]
    ELSE [ pane |-> pane, ret |-> None ]

\* close_item closing the last item when the index is out of range.
close_item_clamping(pane, index) ==
    IF pane.items = << >> THEN [ pane |-> pane, ret |-> None ]
    ELSE LET i == IF index < Len(pane.items) THEN index ELSE Len(pane.items) - 1
             items == Vec_remove(pane.items, i) IN
         [ pane |-> [ items |-> items,
                      active_index |->
                          IF pane.active_index >= Len(items) /\ items # << >>
                          THEN Len(items) - 1 ELSE pane.active_index ],
           ret |-> Some(pane.items[i + 1]) ]

\* CenterPane::close_item: the pane it leaves and the view it returns.
close_item(pane, index) ==
    IF index < Len(pane.items)
    THEN LET removed == pane.items[index + 1]
             items == Vec_remove(pane.items, index) IN
         [ pane |-> [ items |-> items,
                      active_index |->
                          IF pane.active_index >= Len(items) /\ items # << >>
                          THEN Len(items) - 1 ELSE pane.active_index ],
           ret |-> Some(removed) ]
    ELSE [ pane |-> pane, ret |-> None ]

\* CenterPane::set_active
set_active(pane, index) ==
    IF index < Len(pane.items) THEN [ pane EXCEPT !.active_index = index ]
    ELSE pane

\* The last operation: its name, its argument, the pane it was called on and
\* the view it returned.
Call(op, item, index, before, ret) ==
    [ op |-> op, item |-> item, index |-> index, before |-> before, ret |-> ret ]

\* Town::new
InitPane ==
    /\ center_pane = NewCenterPane
    /\ last_call = Call("new", None, 0, NewCenterPane, None)
    /\ name = << >>
    /\ roles = NoRoles
    /\ InitPathIdle
    /\ InitDiscIdle
    /\ InitDashIdle
    /\ InitBarIdle

\* Town::open_item
OpenItem ==
    /\ Len(center_pane.items) < MaxItems
    /\ \E item \in Views :
          /\ center_pane' = add_item(center_pane, item)
          /\ last_call' = Call("add_item", Some(item), 0, center_pane, None)
    /\ UNCHANGED <<roleVars, pathVars, discVars, dashVars, barVars>>

\* Town::close_item
CloseItem ==
    /\ \E index \in Indices :
          /\ center_pane' = close_item(center_pane, index).pane
          /\ last_call' = Call("close_item", None, index, center_pane,
                               close_item(center_pane, index).ret)
    /\ UNCHANGED <<roleVars, pathVars, discVars, dashVars, barVars>>

\* Town::set_active_item
SetActiveItem ==
    /\ \E index \in Indices :
          /\ center_pane' = set_active(center_pane, index)
          /\ last_call' = Call("set_active", None, index, center_pane, None)
    /\ UNCHANGED <<roleVars, pathVars, discVars, dashVars, barVars>>

NextPane ==
    \/ OpenItem
    \/ CloseItem
    \/ SetActiveItem

SpecPane == InitPane /\ [][NextPane]_vars

\* C24: CenterPane keeps its active index valid: whenever the item list is
\* not empty active_index is less than the number of items and active_item
\* returns a view, and active_item returns nothing only when the list is
\* empty.
C24_ActiveIndexValid ==
    /\ ~ is_empty(center_pane) =>
          /\ center_pane.active_index < Len(center_pane.items)
          /\ active_item(center_pane) # None
    /\ active_item(center_pane) = None => is_empty(center_pane)

\* The active item was the last of several and was closed; the new last item
\* is active.
C24_Witness ==
    /\ last_call.op = "close_item"
    /\ Len(last_call.before.items) >= 2
    /\ last_call.before.active_index = Len(last_call.before.items) - 1
    /\ last_call.index = last_call.before.active_index
    /\ center_pane.active_index = Len(center_pane.items) - 1

\* The last call was close_item with an index in range.
Closed ==
    /\ last_call.op = "close_item"
    /\ last_call.index < Len(last_call.before.items)

\* C25: closing a tab other than the active one keeps the same view active:
\* for every valid index different from active_index, active_item after
\* close_item(index) returns the view it returned before.
C25_ClosingOtherKeepsActive ==
    (Closed /\ last_call.index # last_call.before.active_index) =>
        active_item(center_pane) = active_item(last_call.before)

\* C26: an index operation with an index out of range changes nothing:
\* close_item(i) with i not less than the number of items returns no view
\* and leaves the item list and active_index as they were, and set_active(i)
\* with such an i leaves active_index as it was.
C26_OutOfRangeChangesNothing ==
    /\ (last_call.op = "close_item"
            /\ last_call.index >= Len(last_call.before.items)) =>
          /\ last_call.ret = None
          /\ center_pane.items = last_call.before.items
          /\ center_pane.active_index = last_call.before.active_index
    /\ (last_call.op = "set_active"
            /\ last_call.index >= Len(last_call.before.items)) =>
          /\ center_pane.active_index = last_call.before.active_index
          /\ center_pane.items = last_call.before.items

\* close_item was called on a pane of several items with the index just past
\* its last item.
C26_Witness ==
    /\ last_call.op = "close_item"
    /\ Len(last_call.before.items) >= 2
    /\ last_call.index = Len(last_call.before.items)
    /\ last_call.before.active_index = 0

\* C27: add_item, and Town::open_item through it, appends the new view after
\* the items there are, keeps their order, and makes the new view the active
\* item.
C27_AddAppendsAndActivates ==
    last_call.op = "add_item" =>
        /\ center_pane.items = Append(last_call.before.items, Unwrap(last_call.item))
        /\ center_pane.active_index = Len(center_pane.items) - 1
        /\ active_item(center_pane) = last_call.item

\* A view was added to a pane of two different views whose first was active.
C27_Witness ==
    /\ last_call.op = "add_item"
    /\ Len(last_call.before.items) = 2
    /\ last_call.before.items[1] # last_call.before.items[2]
    /\ last_call.before.active_index = 0
    /\ Unwrap(last_call.item) # last_call.before.items[1]

=============================================================================
